---- MODULE Spec2Model ----
(***************************************************************************)
(* Credit ledger and referral engine: the event store, the referral        *)
(* calculator and processor, the ledger recorder and the write routes      *)
(* (enroll, batch enroll, award credits, bulk record).                     *)
(*                                                                         *)
(* One request is in flight at a time.  Every await on the store (findOne, *)
(* save, insertMany) is one step, taken together with the synchronous code *)
(* that follows it up to the next await.                                   *)
(***************************************************************************)
EXTENDS Integers, Sequences, FiniteSets, TLC

VARIABLES
    store,           \* the CreditEvent collection, in insertion order; _id = position
    op,              \* the operation in flight: idle, enroll, batch, credits, record, process, bulk
    pc,              \* its position: idle, start, validate, bonus, primary, done
    items,           \* the request bodies: one for a single call, the array of a batch
    idx,             \* index of the body being handled
    outcomes,        \* the responses / results / errors produced so far, one per body
    referralResult,  \* what processReferralBonus returned in the current call
    itemBase,        \* number of stored events when the current body was started
    prbBase,         \* number of stored events when processReferralBonus was invoked
    prbEnd,          \* number of stored events when processReferralBonus returned
    calc,            \* a calculateReferralBonus application: arguments and result
    read             \* the last read of the collection: its query and what it returned

vars == <<store, op, pc, items, idx, outcomes, referralResult, itemBase, prbBase, prbEnd, calc, read>>

----------------------------------------------------------------------------
\* Bounds of the model

MaxHistory == 1
MaxBatch == 2
MaxBulk == 1
MaxBase == 200

----------------------------------------------------------------------------
\* Values

Null == "null"
Undefined == "undefined"

\* JavaScript !x for a string, null or undefined
Falsy(x) == x \in {"", Null, Undefined}

Users == {"u1", "u2"}

\* enum of creditEventSchema.actionType
ActionEnum == {"enrollment", "referral_bonus", "social_post", "tech_module",
               "spend_multiplier", "coffee_wall", "other"}

\* validActionTypes of POST /api/credits
validActionTypes == {"enrollment", "social_post", "tech_module",
                     "spend_multiplier", "coffee_wall", "other"}

\* default creditsAwarded of POST /api/enroll and of a batch item
DefaultCredits == 100

----------------------------------------------------------------------------
\* Referral calculator

\* bonusMultipliers, in hundredths
bonusMultipliers ==
    [enrollment |-> 20, social_post |-> 10, tech_module |-> 15,
     spend_multiplier |-> 25, coffee_wall |-> 5, other |-> 10]

\* Math.floor of a quotient n / d, d > 0 (\div rounds toward minus infinity)
Floor(n, d) == n \div d

\* names every object inherits from Object.prototype: bonusMultipliers[name] is a
\* function (or the prototype itself), truthy and not a number
ObjectPrototypeKeys == {"constructor", "toString", "toLocaleString", "valueOf",
                        "hasOwnProperty", "isPrototypeOf", "propertyIsEnumerable",
                        "__proto__"}

\* NaN, the product of a number and a function and what Math.floor makes of it; an
\* integer outside the range of the credits of the model
NaN == -1000000

\* Mutants of calculateReferralBonus
calculateReferralBonus_Ceil(actionType, baseCredits) ==
    LET multiplier == IF actionType \in DOMAIN bonusMultipliers
                      THEN bonusMultipliers[actionType]
                      ELSE bonusMultipliers["other"]
    IN  Floor(baseCredits * multiplier + 99, 100)

calculateReferralBonus(actionType, baseCredits) ==
    IF actionType \notin DOMAIN bonusMultipliers /\ actionType \in ObjectPrototypeKeys
    THEN NaN
    ELSE LET multiplier == IF actionType \in DOMAIN bonusMultipliers
                           THEN bonusMultipliers[actionType]
                           ELSE bonusMultipliers["other"]
         IN  Floor(baseCredits * multiplier, 100)

----------------------------------------------------------------------------
\* Event store (CreditEvent model)

\* a CreditEvent document built by `new CreditEvent({...})`, not yet saved
Doc(userId, actionType, creditsAwarded, referrerBonus, referrerId, metadata) ==
    [userId |-> userId, actionType |-> actionType, creditsAwarded |-> creditsAwarded,
     referrerBonus |-> referrerBonus, referrerId |-> referrerId,
     timestamp |-> 0, metadata |-> metadata]

\* Mutant of SchemaValid: the `min: 0` validators are dropped
SchemaValid_NoMin(doc) ==
    /\ ~Falsy(doc.userId)
    /\ doc.actionType \in ActionEnum

\* creditEventSchema validation run by save() and insertMany()
SchemaValid(doc) ==
    /\ ~Falsy(doc.userId)
    /\ doc.actionType \in ActionEnum
    /\ doc.creditsAwarded >= 0
    /\ doc.referrerBonus >= 0

\* Mutant of Saved: save() updates the newest document in place of inserting one
Saved_ReplacesNewest(doc) ==
    IF store = <<>> THEN <<[doc EXCEPT !.timestamp = 1]>>
    ELSE [store EXCEPT ![Len(store)] = [doc EXCEPT !.timestamp = Len(store) + 1]]

\* the collection after a successful save(): timestamp defaults to Date.now
Saved(doc) == Append(store, [doc EXCEPT !.timestamp = Len(store) + 1])

\* Mutant of HasHistory: the lookup sees the newest event only
HasHistory_NewestOnly(userId) ==
    store # <<>> /\ store[Len(store)].userId = userId

\* CreditEvent.findOne({ userId }) finds something
HasHistory(userId) == \E i \in 1..Len(store) : store[i].userId = userId

----------------------------------------------------------------------------
\* Requests

\* a request body / eventData; hasCredits is FALSE when creditsAwarded is undefined
Body(userId, actionType, hasCredits, creditsAwarded, referrerId) ==
    [userId |-> userId, actionType |-> actionType, hasCredits |-> hasCredits,
     creditsAwarded |-> creditsAwarded, referrerId |-> referrerId]

\* destructuring defaults of POST /api/enroll and of a batch item
WithEnrollDefaults(b) ==
    [b EXCEPT !.actionType = IF b.actionType = Undefined THEN "enrollment" ELSE b.actionType,
              !.creditsAwarded = IF b.hasCredits THEN b.creditsAwarded ELSE DefaultCredits,
              !.hasCredits = TRUE]

\* the eventData a route hands to recordCreditEvent
EventData(o, b) ==
    CASE o = "enroll" -> WithEnrollDefaults(b)
      [] o = "batch"  -> LET d == WithEnrollDefaults(b)
                         IN  [d EXCEPT !.referrerId =
                                 IF ~Falsy(b.referrerId) /\ b.referrerId # b.userId
                                 THEN b.referrerId ELSE Null]
      [] OTHER        -> b

\* metadata the caller's route attaches to the primary event
RouteMetadata(o) ==
    CASE o = "enroll"  -> [enrollmentSource |-> "api"]
      [] o = "batch"   -> [enrollmentSource |-> "batch_api"]
      [] o = "credits" -> [source |-> "direct_api"]
      [] OTHER         -> [source |-> "caller"]

NoResult == [success |-> FALSE, bonusAwarded |-> 0, referralEventId |-> 0,
             message |-> "", error |-> "", returned |-> FALSE]

Result(success, bonusAwarded, referralEventId, message, error) ==
    [success |-> success, bonusAwarded |-> bonusAwarded,
     referralEventId |-> referralEventId, message |-> message, error |-> error,
     returned |-> TRUE]

\* what the caller gets back for one body: the response of a route, an entry of the
\* batch results / errors, or the return / throw of a service call; `appended` is the
\* number of events stored while the body was handled
Outcome(status, error, cause, eventId, bonusAwarded) ==
    [status |-> status, error |-> error, cause |-> cause, eventId |-> eventId,
     bonusAwarded |-> bonusAwarded, appended |-> 0]

\* the body being handled and the eventData derived from it
cur == items[idx]
eventData == EventData(op, cur)

\* Mutant of TriggersReferral: the comparison with userId is dropped
TriggersReferral_NoSelfCheck(d) == ~Falsy(d.referrerId)

\* the referral trigger condition of recordCreditEvent
TriggersReferral(d) == ~Falsy(d.referrerId) /\ d.referrerId # d.userId

----------------------------------------------------------------------------
\* Inputs the requests are drawn from

Absent == {<<FALSE, 0>>}
Given(vals) == {<<TRUE, v>> : v \in vals}

Bodies(userIds, actionTypes, credits, referrerIds) ==
    {Body(u, a, c[1], c[2], r) : u \in userIds, a \in actionTypes,
                                 c \in credits, r \in referrerIds}

\* POST /api/enroll: either user, with the default or a supplied actionType, with no
\* referrer, itself or the other user as referrer; a body without userId; and an
\* enrollment of u2 with 150 credits referred by u1
EnrollBodies ==
    Bodies(Users, {Undefined, "referral_bonus", "bogus"}, Absent, Users \cup {Undefined})
    \cup Bodies({""}, {Undefined}, Absent, {"u1"})
    \cup Bodies({"u2"}, {Undefined}, Given({150}), {"u1"})

\* items of POST /api/enroll/batch: a plain enrollment, an item without userId, two
\* referred enrollments (one with an unknown actionType) and a self-referral
BatchBodies ==
    << Body("u1", Undefined, FALSE, 0, Undefined),
       Body("", Undefined, FALSE, 0, Undefined),
       Body("u2", Undefined, FALSE, 0, "u1"),
       Body("u2", "bogus", FALSE, 0, "u1"),
       Body("u1", Undefined, FALSE, 0, "u1") >>

\* the enrollments arrays: the items of BatchBodies at increasing positions
Batches(n) ==
    LET Increasing(ix) == \A i \in 1..(Len(ix) - 1) : ix[i] < ix[i + 1]
        Positions == UNION {[1..k -> 1..Len(BatchBodies)] : k \in 1..n}
    IN  {[i \in 1..Len(ix) |-> BatchBodies[ix[i]]] : ix \in {p \in Positions : Increasing(p)}}

\* POST /api/credits
CreditsBodies ==
    Bodies({"u2"}, {"coffee_wall", "bogus"}, Given({20}), Users \cup {Undefined})
    \cup Bodies({"u2"}, {"coffee_wall"}, Absent \cup Given({-1, 0}), {"u1"})
    \cup Bodies({"u2"}, {Undefined, "referral_bonus"}, Given({20}), {"u1"})
    \cup Bodies({""}, {"coffee_wall"}, Given({20}), {"u1"})

\* recordCreditEvent called by another caller than the routes
RecordBodies ==
    Bodies({"u1"}, {"coffee_wall", "bogus"}, Given({0, 19, 20}), Users \cup {Undefined})
    \cup Bodies({"u1"}, {"coffee_wall"}, Absent \cup Given({-1}), {"u2", Undefined})
    \cup Bodies({""}, {"coffee_wall"}, Given({-1}), {"u2"})
    \cup Bodies({"u1"}, {""}, Given({19}), {"u2"})

\* processReferralBonus(referrerId, actionType, baseCredits, newUserId) called on its
\* own, with newUserId in the userId field and baseCredits in creditsAwarded
ProcessBodies ==
    Bodies({"u2"}, {"coffee_wall", "enrollment"}, Given({-1, 0, 19}), {"u1"})
    \cup Bodies({"u2"}, {"enrollment"}, Absent, {"u1"})
    \cup Bodies({""}, {"enrollment"}, Given({19}), {"u1"})
    \cup Bodies({"u2"}, {""}, Given({19}), {"u1"})
    \cup Bodies({"u2"}, {"enrollment"}, Given({19}), {""})

\* events handed to bulkRecordEvents
BulkBodies ==
    Bodies({"u1"}, {"referral_bonus"}, Given({5}), {"u2", Undefined})
    \cup Bodies({"u1"}, {"bogus"}, Given({5}), {Undefined})
    \cup Bodies({"u1"}, {"referral_bonus"}, Given({-1}), {Undefined})
    \cup Bodies({""}, {"referral_bonus"}, Given({5}), {Undefined})

SeqsUpTo(S, n) == UNION {[1..k -> S] : k \in 1..n}

----------------------------------------------------------------------------
\* Initial state: an empty collection, no request in flight

NoCalc == [actionType |-> "", baseCredits |-> 0, done |-> FALSE, result |-> 0]
NoRead == [kind |-> "none", query |-> <<>>, result |-> <<>>, again |-> FALSE]

Init ==
    /\ store = <<>>
    /\ op = "idle"
    /\ pc = "idle"
    /\ items = <<>>
    /\ idx = 0
    /\ outcomes = <<>>
    /\ referralResult = NoResult
    /\ itemBase = 0
    /\ prbBase = 0
    /\ prbEnd = 0
    /\ calc = NoCalc
    /\ read = NoRead

\* a request arrives; requests are taken while the collection holds at most
\* MaxHistory events, which bounds its length
Receive(o, bs) ==
    /\ pc = "idle"
    /\ Len(store) <= MaxHistory
    /\ op' = o
    /\ pc' = "start"
    /\ items' = bs
    /\ idx' = 1
    /\ outcomes' = <<>>
    /\ referralResult' = NoResult
    /\ itemBase' = Len(store)
    /\ prbBase' = Len(store)
    /\ prbEnd' = Len(store)
    /\ UNCHANGED <<store, calc, read>>

EnrollRequest == \E b \in EnrollBodies : Receive("enroll", <<b>>)
BatchRequest == \E bs \in Batches(MaxBatch) : Receive("batch", bs)
CreditsRequest == \E b \in CreditsBodies : Receive("credits", <<b>>)
RecordCall == \E b \in RecordBodies : Receive("record", <<b>>)
ProcessCall == \E b \in ProcessBodies : Receive("process", <<b>>)
BulkCall == \E bs \in SeqsUpTo(BulkBodies, MaxBulk) : Receive("bulk", bs)

----------------------------------------------------------------------------
\* Steps shared by the write paths

\* the batch loop has further items to handle
Continues == op = "batch" /\ idx < Len(items)

\* Mutant of Complete: an item that fails ends the batch loop
Complete_StopsOnError(out) ==
    /\ outcomes' = Append(outcomes, [out EXCEPT !.appended = Len(store') - itemBase'])
    /\ IF Continues /\ out.status # "item_error"
       THEN idx' = idx + 1 /\ pc' = "start"
       ELSE idx' = idx /\ pc' = "done"

\* a body is finished: the batch loop moves on to its next item, any other call ends
Complete(out) ==
    /\ outcomes' = Append(outcomes, [out EXCEPT !.appended = Len(store') - itemBase'])
    /\ IF Continues
       THEN idx' = idx + 1 /\ pc' = "start"
       ELSE idx' = idx /\ pc' = "done"

\* a response with status 400
Reject(error) == Complete(Outcome("400", error, "", 0, 0))

\* an error thrown by a service, as its caller's catch block reports it
Throw(cause) ==
    Complete(CASE op = "enroll"  -> Outcome("500", "Internal server error during enrollment", cause, 0, 0)
               [] op = "credits" -> Outcome("500", "Internal server error while awarding credits", cause, 0, 0)
               [] op = "batch"   -> Outcome("item_error", cause, cause, 0, 0)
               [] OTHER          -> Outcome("thrown", cause, cause, 0, 0))

\* a body recorded as event number eventId
Succeed(eventId) ==
    LET bonus == IF referralResult.returned THEN referralResult.bonusAwarded ELSE 0
    IN  Complete(CASE op \in {"enroll", "credits"} -> Outcome("201", "", "", eventId, bonus)
                   [] op = "batch"                 -> Outcome("item_ok", "", "", eventId, bonus)
                   [] OTHER                        -> Outcome("returned", "", "", eventId, bonus))

\* the argument check of processReferralBonus: !x on each of the four arguments
PrbRejects(d) ==
    \/ Falsy(d.referrerId)
    \/ Falsy(d.actionType)
    \/ ~d.hasCredits \/ d.creditsAwarded = 0
    \/ Falsy(d.userId)

\* Mutant of ProcessSync: `bonusCredits < 0` in place of `bonusCredits <= 0`
ProcessSync_NoZeroSuppression(d) ==
    IF PrbRejects(d)
    THEN Result(FALSE, 0, 0, "", "Missing required parameters for referral processing")
    ELSE IF calculateReferralBonus(d.actionType, d.creditsAwarded) < 0
    THEN Result(TRUE, 0, 0, "No bonus credits applicable for this action type", "")
    ELSE NoResult

\* processReferralBonus up to its await: the result it returns without touching the
\* store, or NoResult when it goes on to save a bonus event
ProcessSync(d) ==
    IF PrbRejects(d)
    THEN Result(FALSE, 0, 0, "", "Missing required parameters for referral processing")
    ELSE IF /\ calculateReferralBonus(d.actionType, d.creditsAwarded) # NaN
            /\ calculateReferralBonus(d.actionType, d.creditsAwarded) <= 0
    THEN Result(TRUE, 0, 0, "No bonus credits applicable for this action type", "")
    ELSE NoResult

\* Mutant of RecordValidation: the check of negative credits is dropped
RecordValidation_NoNegativeCheck(d) ==
    IF Falsy(d.userId) \/ Falsy(d.actionType) \/ ~d.hasCredits
    THEN "Missing required fields: userId, actionType, creditsAwarded"
    ELSE ""

\* the validation of recordCreditEvent: the message of the error thrown, "" when none
RecordValidation(d) ==
    IF Falsy(d.userId) \/ Falsy(d.actionType) \/ ~d.hasCredits
    THEN "Missing required fields: userId, actionType, creditsAwarded"
    ELSE IF d.creditsAwarded < 0
    THEN "Credits awarded cannot be negative"
    ELSE ""

\* recordCreditEvent(d) up to its first await
CallRecord(d) ==
    IF RecordValidation(d) # ""
    THEN /\ Throw(RecordValidation(d))
         /\ referralResult' = NoResult
         /\ UNCHANGED <<prbBase, prbEnd>>
    ELSE IF TriggersReferral(d)
    THEN /\ referralResult' = ProcessSync(d)
         /\ pc' = IF ProcessSync(d).returned THEN "primary" ELSE "bonus"
         /\ prbBase' = Len(store)
         /\ prbEnd' = Len(store)
         /\ UNCHANGED <<idx, outcomes>>
    ELSE /\ referralResult' = NoResult
         /\ pc' = "primary"
         /\ UNCHANGED <<idx, outcomes, prbBase, prbEnd>>

----------------------------------------------------------------------------
\* The handlers, from the arrival of a body to their first await

\* Mutant of EnrollStart: the self-referral check is dropped
EnrollStart_NoSelfCheck ==
    /\ op = "enroll" /\ pc = "start"
    /\ itemBase' = Len(store)
    /\ UNCHANGED <<store, op, items, calc, read>>
    /\ IF Falsy(cur.userId)
       THEN Reject("userId is required")
            /\ referralResult' = NoResult /\ UNCHANGED <<prbBase, prbEnd>>
       ELSE IF ~Falsy(cur.referrerId)
       THEN /\ pc' = "validate"
            /\ referralResult' = NoResult
            /\ UNCHANGED <<idx, outcomes, prbBase, prbEnd>>
       ELSE CallRecord(eventData)

EnrollStart ==
    /\ op = "enroll" /\ pc = "start"
    /\ itemBase' = Len(store)
    /\ UNCHANGED <<store, op, items, calc, read>>
    /\ IF Falsy(cur.userId)
       THEN Reject("userId is required")
            /\ referralResult' = NoResult /\ UNCHANGED <<prbBase, prbEnd>>
       ELSE IF ~Falsy(cur.referrerId)
       THEN IF cur.referrerId = cur.userId
            THEN Reject("Users cannot refer themselves")
                 /\ referralResult' = NoResult /\ UNCHANGED <<prbBase, prbEnd>>
            ELSE /\ pc' = "validate"
                 /\ referralResult' = NoResult
                 /\ UNCHANGED <<idx, outcomes, prbBase, prbEnd>>
       ELSE CallRecord(eventData)

BatchItemStart ==
    /\ op = "batch" /\ pc = "start"
    /\ itemBase' = Len(store)
    /\ UNCHANGED <<store, op, items, calc, read>>
    /\ IF Falsy(cur.userId)
       THEN Complete(Outcome("item_error", "userId is required", "", 0, 0))
            /\ referralResult' = NoResult /\ UNCHANGED <<prbBase, prbEnd>>
       ELSE IF ~Falsy(cur.referrerId) /\ cur.referrerId # cur.userId
       THEN /\ pc' = "validate"
            /\ referralResult' = NoResult
            /\ UNCHANGED <<idx, outcomes, prbBase, prbEnd>>
       ELSE CallRecord(eventData)

CreditsStart ==
    /\ op = "credits" /\ pc = "start"
    /\ itemBase' = Len(store)
    /\ UNCHANGED <<store, op, items, calc, read>>
    /\ IF Falsy(cur.userId) \/ Falsy(cur.actionType) \/ ~cur.hasCredits
       THEN Reject("userId, actionType, and creditsAwarded are required")
            /\ referralResult' = NoResult /\ UNCHANGED <<prbBase, prbEnd>>
       ELSE IF cur.creditsAwarded < 0
       THEN Reject("Credits awarded cannot be negative")
            /\ referralResult' = NoResult /\ UNCHANGED <<prbBase, prbEnd>>
       ELSE IF cur.actionType \notin validActionTypes
       THEN Reject("Invalid action type")
            /\ referralResult' = NoResult /\ UNCHANGED <<prbBase, prbEnd>>
       ELSE CallRecord(eventData)

RecordStart ==
    /\ op = "record" /\ pc = "start"
    /\ itemBase' = Len(store)
    /\ UNCHANGED <<store, op, items, calc, read>>
    /\ CallRecord(eventData)

\* processReferralBonus called on its own
ProcessStart ==
    /\ op = "process" /\ pc = "start"
    /\ itemBase' = Len(store)
    /\ prbBase' = Len(store)
    /\ prbEnd' = Len(store)
    /\ referralResult' = ProcessSync(cur)
    /\ UNCHANGED <<store, op, items, calc, read>>
    /\ IF ProcessSync(cur).returned
       THEN Complete(Outcome("returned", "", ProcessSync(cur).error, 0, 0))
       ELSE pc' = "bonus" /\ UNCHANGED <<idx, outcomes>>

----------------------------------------------------------------------------
\* The awaits on the store

\* Mutants of validateReferrer: any non-empty id is accepted without a lookup; a
\* failing query counts as a referrer found
validateReferrer_NoLookup(referrerId, queryOk) == ~Falsy(referrerId)

validateReferrer_TrueOnFailure(referrerId, queryOk) ==
    IF Falsy(referrerId) THEN FALSE
    ELSE IF queryOk THEN HasHistory(referrerId)
    ELSE TRUE

\* Mutant of validateReferrer: findOne without the userId condition finds any event
validateReferrer_NoCondition(referrerId, queryOk) ==
    IF Falsy(referrerId) THEN FALSE
    ELSE IF queryOk THEN store # <<>>
    ELSE FALSE

\* validateReferrer(referrerId): findOne, false when the query throws
validateReferrer(referrerId, queryOk) ==
    IF Falsy(referrerId) THEN FALSE
    ELSE IF queryOk THEN HasHistory(referrerId)
    ELSE FALSE

\* the enroll routes resume after `await validateReferrer(referrerId)`
ValidateReferrer ==
    /\ pc = "validate"
    /\ UNCHANGED <<store, op, items, itemBase, calc, read>>
    /\ \E queryOk \in BOOLEAN :
         IF ~validateReferrer(cur.referrerId, queryOk)
         THEN /\ IF op = "batch"
                 THEN Complete(Outcome("item_error", "Invalid referrer ID", "", 0, 0))
                 ELSE Reject("Invalid referrer ID")
              /\ UNCHANGED <<referralResult, prbBase, prbEnd>>
         ELSE CallRecord(eventData)

\* Mutants of ReferralEvent: the bonus event keeps the referrer as its referrerId;
\* the bonus event is credited to the referred user
ReferralEvent_KeepReferrer(d, bonusCredits) ==
    Doc(d.referrerId, "referral_bonus", bonusCredits, 0, d.referrerId,
        [triggeredBy |-> d.userId, originalAction |-> d.actionType,
         originalCredits |-> d.creditsAwarded])

ReferralEvent_CreditsNewUser(d, bonusCredits) ==
    Doc(d.userId, "referral_bonus", bonusCredits, 0, Null,
        [triggeredBy |-> d.userId, originalAction |-> d.actionType,
         originalCredits |-> d.creditsAwarded])

\* the event processReferralBonus builds for arguments d and bonus bonusCredits
ReferralEvent(d, bonusCredits) ==
    Doc(d.referrerId, "referral_bonus", bonusCredits, 0, Null,
        [triggeredBy |-> d.userId, originalAction |-> d.actionType,
         originalCredits |-> d.creditsAwarded])

\* what processReferralBonus returns once the save has succeeded
ReferralSuccess(bonusCredits, referralEventId) ==
    Result(TRUE, bonusCredits, referralEventId, "Referral bonus awarded", "")

\* Mutant of BonusSave: processReferralBonus rethrows the error of the save
BonusSave_Propagates ==
    /\ pc = "bonus"
    /\ UNCHANGED <<op, items, itemBase, prbBase, calc, read>>
    /\ \E saveOk \in BOOLEAN :
         LET bonusCredits == calculateReferralBonus(eventData.actionType, eventData.creditsAwarded)
             referralEvent == ReferralEvent(eventData, bonusCredits)
         IN  /\ IF saveOk /\ SchemaValid(referralEvent)
                THEN /\ store' = Saved(referralEvent)
                     /\ referralResult' = ReferralSuccess(bonusCredits, Len(store) + 1)
                ELSE /\ store' = store
                     /\ referralResult' =
                          Result(FALSE, 0, 0, "",
                                 IF SchemaValid(referralEvent) THEN "referralEvent.save failed"
                                 ELSE "CreditEvent validation failed")
             /\ prbEnd' = Len(store')
             /\ IF op = "process"
                THEN Complete(Outcome("returned", "", referralResult'.error,
                                      referralResult'.referralEventId,
                                      referralResult'.bonusAwarded))
                ELSE IF referralResult'.success
                THEN pc' = "primary" /\ UNCHANGED <<idx, outcomes>>
                ELSE Throw(referralResult'.error)

\* Mutant of BonusSave: the save is not awaited, the processor returns before the
\* bonus event is stored
BonusSave_NotAwaited ==
    /\ pc = "bonus"
    /\ UNCHANGED <<op, items, itemBase, prbBase, calc, read>>
    /\ LET bonusCredits == calculateReferralBonus(eventData.actionType, eventData.creditsAwarded)
       IN  /\ store' = store
           /\ referralResult' = ReferralSuccess(bonusCredits, Len(store) + 1)
           /\ prbEnd' = Len(store')
           /\ IF op = "process"
              THEN Complete(Outcome("returned", "", referralResult'.error,
                                    referralResult'.referralEventId,
                                    referralResult'.bonusAwarded))
              ELSE pc' = "primary" /\ UNCHANGED <<idx, outcomes>>

\* processReferralBonus resumes after `await referralEvent.save()`
BonusSave ==
    /\ pc = "bonus"
    /\ UNCHANGED <<op, items, itemBase, prbBase, calc, read>>
    /\ \E saveOk \in BOOLEAN :
         LET bonusCredits == calculateReferralBonus(eventData.actionType, eventData.creditsAwarded)
             referralEvent == ReferralEvent(eventData, bonusCredits)
         IN  /\ IF saveOk /\ SchemaValid(referralEvent)
                THEN /\ store' = Saved(referralEvent)
                     /\ referralResult' = ReferralSuccess(bonusCredits, Len(store) + 1)
                ELSE /\ store' = store
                     /\ referralResult' =
                          Result(FALSE, 0, 0, "",
                                 IF SchemaValid(referralEvent) THEN "referralEvent.save failed"
                                 ELSE "CreditEvent validation failed")
             /\ prbEnd' = Len(store')
             /\ IF op = "process"
                THEN Complete(Outcome("returned", "", referralResult'.error,
                                      referralResult'.referralEventId,
                                      referralResult'.bonusAwarded))
                ELSE pc' = "primary" /\ UNCHANGED <<idx, outcomes>>

\* Mutant of CreditEventDoc: referrerBonus is the computed bonus, not the reported one
CreditEventDoc_ComputedBonus(d, referrerBonus, metadata) ==
    Doc(d.userId, d.actionType, d.creditsAwarded,
        IF TriggersReferral(d) /\ ~PrbRejects(d)
        THEN calculateReferralBonus(d.actionType, d.creditsAwarded) ELSE 0,
        IF Falsy(d.referrerId) THEN Null ELSE d.referrerId, metadata)

\* the main credit event recordCreditEvent builds
CreditEventDoc(d, referrerBonus, metadata) ==
    Doc(d.userId, d.actionType, d.creditsAwarded, referrerBonus,
        IF Falsy(d.referrerId) THEN Null ELSE d.referrerId, metadata)

\* Mutant of PrimarySave: a failed save of the primary event undoes the bonus event
PrimarySave_RollsBack ==
    /\ pc = "primary"
    /\ UNCHANGED <<op, items, itemBase, calc, read>>
    /\ IF Continues
       THEN referralResult' = NoResult /\ prbBase' = prbEnd /\ prbEnd' = prbEnd
       ELSE UNCHANGED <<referralResult, prbBase, prbEnd>>
    /\ \E saveOk \in BOOLEAN :
         LET creditEvent == CreditEventDoc(eventData, referralResult.bonusAwarded,
                                           RouteMetadata(op))
         IN  IF saveOk /\ SchemaValid(creditEvent)
             THEN /\ store' = Saved(creditEvent)
                  /\ Succeed(Len(store) + 1)
             ELSE /\ store' = SubSeq(store, 1, prbBase)
                  /\ Throw(IF SchemaValid(creditEvent) THEN "creditEvent.save failed"
                           ELSE "CreditEvent validation failed")

\* recordCreditEvent resumes after `await creditEvent.save()`
PrimarySave ==
    /\ pc = "primary"
    /\ UNCHANGED <<op, items, itemBase, calc, read>>
    /\ IF Continues
       THEN referralResult' = NoResult /\ prbBase' = prbEnd /\ prbEnd' = prbEnd
       ELSE UNCHANGED <<referralResult, prbBase, prbEnd>>
    /\ \E saveOk \in BOOLEAN :
         LET creditEvent == CreditEventDoc(eventData, referralResult.bonusAwarded,
                                           RouteMetadata(op))
         IN  IF saveOk /\ SchemaValid(creditEvent)
             THEN /\ store' = Saved(creditEvent)
                  /\ Succeed(Len(store) + 1)
             ELSE /\ store' = store
                  /\ Throw(IF SchemaValid(creditEvent) THEN "creditEvent.save failed"
                           ELSE "CreditEvent validation failed")

\* the documents of docs, appended to st in order
RECURSIVE InsertAll(_, _)
InsertAll(st, docs) ==
    IF docs = <<>> THEN st
    ELSE InsertAll(Append(st, [Head(docs) EXCEPT !.timestamp = Len(st) + 1]), Tail(docs))

\* the subsequence of s at the positions in keep
RECURSIVE Pick(_, _, _)
Pick(s, keep, i) ==
    IF i > Len(s) THEN <<>>
    ELSE (IF i \in keep THEN <<s[i]>> ELSE <<>>) \o Pick(s, keep, i + 1)

\* the validatedEvents of bulkRecordEvents
BulkDocs(bs) ==
    [i \in 1..Len(bs) |->
        Doc(bs[i].userId, bs[i].actionType, bs[i].creditsAwarded, 0,
            IF Falsy(bs[i].referrerId) THEN Null ELSE bs[i].referrerId,
            [source |-> "caller"])]

\* bulkRecordEvents: insertMany with ordered: false skips the documents that fail
\* validation and writes each other one unless its write fails
BulkRecord ==
    /\ op = "bulk" /\ pc = "start"
    /\ itemBase' = Len(store)
    /\ UNCHANGED <<op, items, referralResult, prbBase, prbEnd, calc, read>>
    /\ IF \E i \in 1..Len(items) :
            Falsy(items[i].userId) \/ Falsy(items[i].actionType) \/ ~items[i].hasCredits
       THEN /\ store' = store
            /\ Throw("Each event must have userId, actionType, and creditsAwarded")
       ELSE LET docs == BulkDocs(items)
                valid == {i \in 1..Len(docs) : SchemaValid(docs[i])}
            IN  \E written \in SUBSET valid :
                  /\ store' = InsertAll(store, Pick(docs, written, 1))
                  /\ IF written = valid
                     THEN Complete(Outcome("returned", "", "", 0, 0))
                     ELSE Throw("insertMany failed")

\* the response is sent, the call returns
Return ==
    /\ pc = "done"
    /\ op' = "idle"
    /\ pc' = "idle"
    /\ items' = <<>>
    /\ idx' = 0
    /\ outcomes' = <<>>
    /\ referralResult' = NoResult
    /\ itemBase' = Len(store)
    /\ prbBase' = Len(store)
    /\ prbEnd' = Len(store)
    /\ read' = NoRead
    /\ UNCHANGED <<store, calc>>

Next ==
    \/ EnrollRequest \/ BatchRequest \/ CreditsRequest
    \/ RecordCall \/ ProcessCall \/ BulkCall
    \/ EnrollStart \/ BatchItemStart \/ CreditsStart \/ RecordStart \/ ProcessStart
    \/ ValidateReferrer \/ BonusSave \/ PrimarySave \/ BulkRecord
    \/ Return

Spec == Init /\ [][Next]_vars

----------------------------------------------------------------------------
\* The referral calculator on its own: one application per behaviour

CalcTypes == validActionTypes \cup {"referral_bonus", "bogus", "constructor"}

InitCalc ==
    /\ store = <<>> /\ op = "idle" /\ pc = "idle" /\ items = <<>> /\ idx = 0
    /\ outcomes = <<>> /\ referralResult = NoResult
    /\ itemBase = 0 /\ prbBase = 0 /\ prbEnd = 0
    /\ calc \in [actionType : CalcTypes, baseCredits : 0..MaxBase,
                 done : {FALSE}, result : {0}]
    /\ read = NoRead

Calculate ==
    /\ ~calc.done
    /\ calc' = [calc EXCEPT !.done = TRUE,
                            !.result = calculateReferralBonus(calc.actionType, calc.baseCredits)]
    /\ UNCHANGED <<store, op, pc, items, idx, outcomes, referralResult,
                   itemBase, prbBase, prbEnd, read>>

NextCalc == Calculate

SpecCalc == InitCalc /\ [][NextCalc]_vars

----------------------------------------------------------------------------
\* Aggregation reader: the queries of the ledger and referral services

\* slice(0, 10) of getUserCreditTotal and getReferralBonusSummary
RecentLimit == 10
\* `limit = 50` and `Math.min(limit, 100)` of getCreditEvents
DefaultLimit == 50
MaxLimit == 100

Min(a, b) == IF a < b THEN a ELSE b

\* a value given (<<v>>) or left undefined (<<>>)
Or(opt, default) == IF opt = <<>> THEN default ELSE opt[1]

\* a query object: each condition is present (<<v>>) or not (<<>>)
Query(userId, actionType, referrerId, gte, lte) ==
    [userId |-> userId, actionType |-> actionType, referrerId |-> referrerId,
     gte |-> gte, lte |-> lte]

Matches(e, query) ==
    /\ query.userId # <<>> => e.userId = query.userId[1]
    /\ query.actionType # <<>> => e.actionType = query.actionType[1]
    /\ query.referrerId # <<>> => e.referrerId = query.referrerId[1]
    /\ query.gte # <<>> => e.timestamp >= query.gte[1]
    /\ query.lte # <<>> => e.timestamp <= query.lte[1]

\* CreditEvent.find(query): the documents of st that match
Find(st, query) == {st[i] : i \in {j \in 1..Len(st) : Matches(st[j], query)}}

\* .sort({ timestamp: -1 }); timestamps are distinct
RECURSIVE SortDesc(_)
SortDesc(S) ==
    IF S = {} THEN <<>>
    ELSE LET newest == CHOOSE e \in S : \A f \in S : f.timestamp <= e.timestamp
         IN  <<newest>> \o SortDesc(S \ {newest})

\* .skip(k) and .limit(n) of a cursor; limit(0) sets no limit
Skip(events, k) == SubSeq(events, k + 1, Len(events))
Limit(events, n) == IF n = 0 THEN events ELSE SubSeq(events, 1, Min(n, Len(events)))

\* events.reduce((sum, event) => sum + event.creditsAwarded, 0)
RECURSIVE SumCredits(_)
SumCredits(events) ==
    IF events = <<>> THEN 0 ELSE Head(events).creditsAwarded + SumCredits(Tail(events))

\* the breakdown by action type built by the second reduce of getUserCreditTotal
Breakdown(events) ==
    LET Of(a) == LET Is(e) == e.actionType = a IN SelectSeq(events, Is)
    IN  [a \in {events[i].actionType : i \in 1..Len(events)} |->
            [count |-> Len(Of(a)), totalCredits |-> SumCredits(Of(a))]]

\* what a rejected promise of a reader carries
Thrown(message) == [thrown |-> message]


\* Mutants of getUserCreditTotal: the total adds the referrerBonus of each event; the
\* recent events are not cut to the ten newest
getUserCreditTotal_AddsReferrerBonus(st, userId) ==
    LET events == SortDesc(Find(st, Query(<<userId>>, <<>>, <<>>, <<>>, <<>>)))
        RECURSIVE SumBoth(_)
        SumBoth(es) == IF es = <<>> THEN 0
                       ELSE Head(es).creditsAwarded + Head(es).referrerBonus + SumBoth(Tail(es))
    IN  [userId |-> userId,
         totalCredits |-> SumBoth(events),
         totalEvents |-> Len(events),
         creditsByAction |-> Breakdown(events),
         lastActivity |-> IF Len(events) > 0 THEN <<events[1].timestamp>> ELSE <<>>,
         recentEvents |-> SubSeq(events, 1, Min(RecentLimit, Len(events)))]

getUserCreditTotal_NoSlice(st, userId) ==
    LET events == SortDesc(Find(st, Query(<<userId>>, <<>>, <<>>, <<>>, <<>>)))
    IN  [userId |-> userId,
         totalCredits |-> SumCredits(events),
         totalEvents |-> Len(events),
         creditsByAction |-> Breakdown(events),
         lastActivity |-> IF Len(events) > 0 THEN <<events[1].timestamp>> ELSE <<>>,
         recentEvents |-> events]

\* getUserCreditTotal(userId) on the collection st
getUserCreditTotal(st, userId) ==
    LET events == SortDesc(Find(st, Query(<<userId>>, <<>>, <<>>, <<>>, <<>>)))
    IN  [userId |-> userId,
         totalCredits |-> SumCredits(events),
         totalEvents |-> Len(events),
         creditsByAction |-> Breakdown(events),
         lastActivity |-> IF Len(events) > 0 THEN <<events[1].timestamp>> ELSE <<>>,
         recentEvents |-> SubSeq(events, 1, Min(RecentLimit, Len(events)))]

\* the filters of getCreditEvents: strings ("" or Undefined when not given), dates and
\* pagination given (<<v>>) or not (<<>>)
Filters(userId, actionType, referrerId, startDate, endDate, limit, skip) ==
    [userId |-> userId, actionType |-> actionType, referrerId |-> referrerId,
     startDate |-> startDate, endDate |-> endDate, limit |-> limit, skip |-> skip]

\* the query object getCreditEvents builds from the truthy filters
QueryOf(filters) ==
    LET Truthy(x) == IF Falsy(x) THEN <<>> ELSE <<x>>
    IN  Query(Truthy(filters.userId), Truthy(filters.actionType),
              Truthy(filters.referrerId), filters.startDate, filters.endDate)

\* getCreditEvents(filters) on the collection st
getCreditEvents(st, filters) ==
    LET limit == Or(filters.limit, DefaultLimit)
        skip == Or(filters.skip, 0)
        query == QueryOf(filters)
        events == Limit(Skip(SortDesc(Find(st, query)), skip), Min(limit, MaxLimit))
        totalCount == Cardinality(Find(st, query))
    IN  [events |-> events,
         pagination |-> [totalCount |-> totalCount, limit |-> limit, skip |-> skip,
                         hasMore |-> (skip + Len(events)) < totalCount]]

\* getReferralBonusSummary(userId) on the collection st
getReferralBonusSummary(st, userId) ==
    LET bonusEvents ==
            SortDesc(Find(st, Query(<<userId>>, <<"referral_bonus">>, <<>>, <<>>, <<>>)))
    IN  [totalBonusCredits |-> SumCredits(bonusEvents),
         totalReferrals |-> Len(bonusEvents),
         recentBonuses |-> SubSeq(bonusEvents, 1, Min(RecentLimit, Len(bonusEvents)))]

\* Mutant of getSystemStats: uniqueUsers counts the events, not the distinct userIds
getSystemStats_CountsEvents(st, oneDayAgo) ==
    LET all == SortDesc(Find(st, Query(<<>>, <<>>, <<>>, <<>>, <<>>)))
    IN  [totalCredits |-> SumCredits(all),
         totalEvents |-> Len(all),
         uniqueUsers |-> Len(st),
         recentActivity |-> Cardinality(Find(st, Query(<<>>, <<>>, <<>>, <<oneDayAgo>>, <<>>))),
         creditsByAction |-> [a \in DOMAIN Breakdown(all) |->
                                 [totalCredits |-> Breakdown(all)[a].totalCredits,
                                  eventCount |-> Breakdown(all)[a].count]]]

\* getSystemStats() on the collection st, oneDayAgo being Date.now() less 24 hours
getSystemStats(st, oneDayAgo) ==
    LET all == SortDesc(Find(st, Query(<<>>, <<>>, <<>>, <<>>, <<>>)))
    IN  [totalCredits |-> SumCredits(all),
         totalEvents |-> Len(all),
         uniqueUsers |-> Cardinality({st[i].userId : i \in 1..Len(st)}),
         recentActivity |-> Cardinality(Find(st, Query(<<>>, <<>>, <<>>, <<oneDayAgo>>, <<>>))),
         creditsByAction |-> [a \in DOMAIN Breakdown(all) |->
                                 [totalCredits |-> Breakdown(all)[a].totalCredits,
                                  eventCount |-> Breakdown(all)[a].count]]]

----------------------------------------------------------------------------
\* The readers on their own, on a collection the write paths have filled

MaxMixed == 2
MaxRun == 11

\* events the write paths store: an enrollment of u1, a referral bonus of u1, and an
\* enrollment of u2 referred by u1 whose bonus event could not be saved
StoredDocs ==
    { CreditEventDoc(Body("u1", "enrollment", TRUE, DefaultCredits, Undefined), 0,
                     RouteMetadata("enroll")),
      ReferralEvent(Body("u2", "enrollment", TRUE, DefaultCredits, "u1"),
                    calculateReferralBonus("enrollment", DefaultCredits)),
      CreditEventDoc(Body("u2", "enrollment", TRUE, DefaultCredits, "u1"), 0,
                     RouteMetadata("enroll")) }

\* collections: up to MaxMixed stored events, then no or about MaxRun times one event
Collections ==
    {InsertAll(<<>>, p \o [i \in 1..n |-> e]) :
        p \in {<<>>} \cup SeqsUpTo(StoredDocs, MaxMixed), e \in StoredDocs,
        n \in {0} \cup (MaxRun - 2)..MaxRun}

InitRead ==
    /\ store \in Collections
    /\ op = "idle" /\ pc = "idle" /\ items = <<>> /\ idx = 0
    /\ outcomes = <<>> /\ referralResult = NoResult
    /\ itemBase = Len(store) /\ prbBase = Len(store) /\ prbEnd = Len(store)
    /\ calc = NoCalc
    /\ read = NoRead

\* Mutant of Queried: the sort is done in place, on the collection
Queried_SortsInPlace(st) == [i \in 1..Len(st) |-> st[Len(st) + 1 - i]]

\* the collection after a query has run on it
Queried(st) == st

\* a reader is called with `query` and settles with `result`; a behaviour has one
\* call, and repetitions of it
Read(kind, query, result) ==
    /\ read.kind = "none" \/ (read.kind = kind /\ read.query = query)
    /\ read' = [kind |-> kind, query |-> query, result |-> result,
                again |-> read.kind = kind /\ read.query = query]
    /\ store' = Queried(store)
    /\ UNCHANGED <<op, pc, items, idx, outcomes, referralResult,
                   itemBase, prbBase, prbEnd, calc>>

ReadUsers == Users \cup {"u3", ""}

UserTotalRead ==
    \E userId \in ReadUsers, queryOk \in BOOLEAN :
        Read("getUserCreditTotal", userId,
             IF Falsy(userId) THEN Thrown("User ID is required")
             ELSE IF ~queryOk THEN Thrown("find failed")
             ELSE getUserCreditTotal(store, userId))

\* filters of the events reads: none or by user with each pagination, by user and
\* action type, and by user, referrer and dates
ReadFilters ==
    { Filters(u, Undefined, Undefined, <<>>, <<>>, l, k) :
        u \in {Undefined, "u1"}, l \in {<<>>, <<0>>, <<1>>, <<2>>, <<150>>},
        k \in {<<>>, <<1>>, <<12>>} }
    \cup { Filters("u1", "referral_bonus", Undefined, <<>>, <<>>, l, k) :
        l \in {<<>>, <<1>>}, k \in {<<>>, <<1>>} }
    \cup { Filters(u, Undefined, r, d[1], d[2], <<>>, <<>>) :
        u \in {"", "u2"}, r \in {"", "u1"},
        d \in {<< <<>>, <<>> >>, << <<2>>, <<>> >>, << <<2>>, <<3>> >>} }

CreditEventsRead ==
    \E filters \in ReadFilters, queryOk \in BOOLEAN :
        Read("getCreditEvents", filters,
             IF ~queryOk THEN Thrown("find failed") ELSE getCreditEvents(store, filters))

BonusSummaryRead ==
    \E userId \in ReadUsers, queryOk \in BOOLEAN :
        Read("getReferralBonusSummary", userId,
             IF ~queryOk THEN Thrown("find failed")
             ELSE getReferralBonusSummary(store, userId))

SystemStatsRead ==
    \E oneDayAgo \in 0..(Len(store) + 1), queryOk \in BOOLEAN :
        Read("getSystemStats", oneDayAgo,
             IF ~queryOk THEN Thrown("aggregate failed")
             ELSE getSystemStats(store, oneDayAgo))

ValidateReferrerRead ==
    \E referrerId \in ReadUsers \cup {Null, Undefined}, queryOk \in BOOLEAN :
        Read("validateReferrer", <<referrerId, queryOk>>,
             validateReferrer(referrerId, queryOk))

NextRead ==
    \/ UserTotalRead \/ CreditEventsRead \/ BonusSummaryRead
    \/ SystemStatsRead \/ ValidateReferrerRead

SpecRead == InitRead /\ [][NextRead]_vars

----------------------------------------------------------------------------
\* The write paths with a reader at work while a request awaits the store

\* getUserCreditTotal is called and served while a write request is waiting for one
\* of its saves; one such read per request
ObserveTotal ==
    /\ pc \in {"bonus", "primary"}
    /\ read.kind = "none"
    /\ \E userId \in Users :
         Read("getUserCreditTotal", userId, getUserCreditTotal(store, userId))

NextObserved == Next \/ ObserveTotal

SpecObserved == Init /\ [][NextObserved]_vars

----------------------------------------------------------------------------
\* Properties

\* the events stored since n events were there
Since(n) == (n + 1)..Len(store)

\* the bonus rates as the specification states them, in percent
StatedRate(actionType) ==
    CASE actionType = "enrollment"       -> 20
      [] actionType = "social_post"      -> 10
      [] actionType = "tech_module"      -> 15
      [] actionType = "spend_multiplier" -> 25
      [] actionType = "coffee_wall"      -> 5
      [] actionType = "other"            -> 10

\* C1: for each of the six supported action types and every non-negative integer B,
\* calculateReferralBonus(type, B) is floor(B * rate[type]): the largest integer r with
\* r <= B * rate; (enrollment, 150) gives 30 and (coffee_wall, 19) gives 0.
C1_BonusIsFloor ==
    (calc.done /\ calc.actionType \in validActionTypes) =>
        /\ calc.result * 100 <= calc.baseCredits * StatedRate(calc.actionType)
        /\ calc.baseCredits * StatedRate(calc.actionType) < (calc.result + 1) * 100
        /\ (calc.actionType = "enrollment" /\ calc.baseCredits = 150 => calc.result = 30)
        /\ (calc.actionType = "coffee_wall" /\ calc.baseCredits = 19 => calc.result = 0)

C1_Witness ==
    calc.done /\ calc.actionType = "enrollment" /\ calc.baseCredits = 150 /\ calc.result = 30

\* C2: every event appended by processReferralBonus has actionType referral_bonus,
\* referrerId null and referrerBonus 0, whatever its arguments and whatever calls
\* came before.
C2_ProcessorEventShape ==
    \A i \in (prbBase + 1)..prbEnd :
        /\ store[i].actionType = "referral_bonus"
        /\ store[i].referrerId = Null
        /\ store[i].referrerBonus = 0

C2_Witness ==
    /\ op = "enroll" /\ pc = "primary"
    /\ prbEnd = prbBase + 1
    /\ prbBase >= 1
    /\ store[prbEnd].userId = cur.referrerId

\* C3: every stored event whose actionType is referral_bonus has referrerId null and
\* referrerBonus 0, whichever operation wrote it.
C3_BonusEventsHaveNoReferrer ==
    \A i \in 1..Len(store) :
        store[i].actionType = "referral_bonus" =>
            store[i].referrerId = Null /\ store[i].referrerBonus = 0

\* a recordCreditEvent call whose referrerId is its userId
SelfReferralCall ==
    /\ op \in {"record", "credits"}
    /\ ~Falsy(cur.referrerId)
    /\ cur.referrerId = cur.userId

\* C4: a recordCreditEvent call whose referrerId equals its userId never appends a
\* referral bonus event: processReferralBonus is not invoked and the store gains at
\* most one event, the primary event of the call.
C4_SelfReferralNoBonus ==
    SelfReferralCall =>
        /\ pc # "bonus"
        /\ ~referralResult.returned
        /\ Len(store) - itemBase <= 1
        /\ \A i \in Since(itemBase) :
              /\ store[i].userId = cur.userId
              /\ store[i].metadata = RouteMetadata(op)

C4_Witness ==
    /\ SelfReferralCall /\ op = "record" /\ pc = "done"
    /\ cur.actionType = "coffee_wall" /\ cur.creditsAwarded = 20
    /\ Len(store) = itemBase + 1

\* C5: no stored event has a non-null referrerId equal to its own userId.
C5_NoSelfReferrerStored ==
    \A i \in 1..Len(store) :
        store[i].referrerId = Null \/ store[i].referrerId # store[i].userId

\* the four arguments of processReferralBonus are present (non-empty, not undefined)
ArgumentsPresent(d) ==
    ~Falsy(d.referrerId) /\ ~Falsy(d.actionType) /\ d.hasCredits /\ ~Falsy(d.userId)

\* C6: one processReferralBonus invocation appends exactly one event when the computed
\* bonus is greater than 0 and the append succeeds, and no event when the computed
\* bonus is 0, when its arguments are rejected or when the append fails.
C6_OneAppendPerBonus ==
    referralResult.returned =>
        LET bonus == calculateReferralBonus(eventData.actionType, eventData.creditsAwarded)
        IN  IF ArgumentsPresent(eventData) /\ bonus > 0 /\ referralResult.success
            THEN prbEnd = prbBase + 1 /\ referralResult.referralEventId = prbEnd
            ELSE prbEnd = prbBase /\ referralResult.referralEventId = 0

C6_Witness ==
    /\ op = "process" /\ pc = "done"
    /\ referralResult.returned /\ referralResult.success
    /\ prbEnd = prbBase + 1

\* C7: called with a non-empty referrerId, actionType and triggering user id and a
\* non-negative baseCredits whose computed bonus is 0 (baseCredits = 0 included),
\* processReferralBonus returns success with bonusAwarded 0 and a message.
C7_ZeroBonusSucceeds ==
    ( /\ referralResult.returned
      /\ ArgumentsPresent(eventData)
      /\ eventData.creditsAwarded >= 0
      /\ calculateReferralBonus(eventData.actionType, eventData.creditsAwarded) = 0 )
    => /\ referralResult.success
       /\ referralResult.bonusAwarded = 0
       /\ referralResult.message # ""

\* C8: when the computed bonus is greater than 0, the event appended by
\* processReferralBonus has userId = referrerId, creditsAwarded = the computed bonus and
\* metadata {triggeredBy, originalAction, originalCredits} taken from the arguments,
\* and the returned bonusAwarded is that event's creditsAwarded.
C8_BonusEventContent ==
    referralResult.referralEventId # 0 =>
        LET e == store[referralResult.referralEventId]
            bonus == calculateReferralBonus(eventData.actionType, eventData.creditsAwarded)
        IN  /\ bonus > 0
            /\ e.userId = eventData.referrerId
            /\ e.creditsAwarded = bonus
            /\ e.metadata = [triggeredBy |-> eventData.userId,
                             originalAction |-> eventData.actionType,
                             originalCredits |-> eventData.creditsAwarded]
            /\ referralResult.bonusAwarded = e.creditsAwarded

C8_Witness ==
    /\ op = "record" /\ pc = "done"
    /\ cur.referrerId = "u2" /\ cur.actionType = "coffee_wall" /\ cur.creditsAwarded = 20
    /\ referralResult.referralEventId # 0
    /\ store[referralResult.referralEventId].creditsAwarded = 1
    /\ store[referralResult.referralEventId].metadata.triggeredBy = "u1"

\* the required fields of recordCreditEvent are not all present
FieldsMissing(d) == Falsy(d.userId) \/ Falsy(d.actionType) \/ ~d.hasCredits

\* C9: recordCreditEvent fails with the missing-fields error when userId, actionType or
\* creditsAwarded is absent, otherwise with the negative-credits error when
\* creditsAwarded < 0; creditsAwarded = 0 passes; on either failure the store is
\* unchanged, also when a distinct referrerId was supplied.
C9_RecordValidation ==
    (op = "record" /\ pc = "done") =>
        LET out == outcomes[1]
        IN  /\ FieldsMissing(cur) =>
                 /\ out.status = "thrown"
                 /\ out.error = "Missing required fields: userId, actionType, creditsAwarded"
                 /\ out.appended = 0 /\ Len(store) = itemBase
            /\ (~FieldsMissing(cur) /\ cur.creditsAwarded < 0) =>
                 /\ out.status = "thrown"
                 /\ out.error = "Credits awarded cannot be negative"
                 /\ out.appended = 0 /\ Len(store) = itemBase
            /\ (~FieldsMissing(cur) /\ cur.creditsAwarded >= 0) =>
                 out.error \notin {"Missing required fields: userId, actionType, creditsAwarded",
                                   "Credits awarded cannot be negative"}

C9_Witness ==
    /\ op = "record" /\ pc = "done"
    /\ ~FieldsMissing(cur) /\ cur.creditsAwarded < 0
    /\ cur.referrerId = "u2" /\ cur.userId = "u1"
    /\ outcomes[1].status = "thrown"
    /\ Len(store) = itemBase

\* C10: on the enroll, batch enroll and award credits routes a body whose actionType is
\* outside the enumeration appends no event at all, neither the primary event nor a
\* referral bonus event.
C10_InvalidActionAppendsNothing ==
    op \in {"enroll", "batch", "credits"} =>
        \A i \in 1..Len(outcomes) :
            EventData(op, items[i]).actionType \notin ActionEnum =>
                outcomes[i].appended = 0

\* C11: every persisted event, primary or bonus, whichever operation wrote it, has
\* creditsAwarded >= 0 and referrerBonus >= 0.
C11_StoredCreditsNonNegative ==
    \A i \in 1..Len(store) : store[i].creditsAwarded >= 0 /\ store[i].referrerBonus >= 0

\* bulkRecordEvents was handed an event with negative credits, on a collection that
\* holds a bonus event
C11_Witness ==
    /\ op = "bulk" /\ pc = "done"
    /\ \E i \in 1..Len(items) : items[i].hasCredits /\ items[i].creditsAwarded < 0
    /\ \E j \in 1..Len(store) : store[j].actionType = "referral_bonus"

\* the operations that go through recordCreditEvent
Recorders == {"enroll", "batch", "credits", "record"}

\* C12: a primary event persisted by recordCreditEvent has referrerBonus equal to the
\* bonusAwarded the processor reported for that call: the creditsAwarded of the bonus
\* event the call appended when it appended one, and 0 otherwise (no referral
\* attempted, a computed bonus of 0, or a failure of the processor); its referrerId is
\* the referrerId handed to recordCreditEvent, or null when there is none.
C12_PrimaryCarriesReportedBonus ==
    \A i \in 1..Len(outcomes) :
        (op \in Recorders /\ outcomes[i].eventId # 0) =>
            LET e == store[outcomes[i].eventId]
                d == EventData(op, items[i])
            IN  /\ e.referrerBonus = outcomes[i].bonusAwarded
                /\ (i = Len(outcomes) /\ pc = "done" /\ referralResult.returned
                        => e.referrerBonus = referralResult.bonusAwarded)
                /\ IF outcomes[i].appended = 2
                   THEN /\ store[outcomes[i].eventId - 1].actionType = "referral_bonus"
                        /\ store[outcomes[i].eventId - 1].creditsAwarded = e.referrerBonus
                   ELSE e.referrerBonus = 0
                /\ e.referrerId = IF Falsy(d.referrerId) THEN Null ELSE d.referrerId

\* an enrollment referred by u1 has been recorded together with its bonus event
C12_Witness ==
    /\ op = "enroll" /\ pc = "done"
    /\ outcomes[1].eventId # 0 /\ outcomes[1].appended = 2
    /\ store[outcomes[1].eventId].referrerBonus = 20
    /\ store[outcomes[1].eventId].referrerId = "u1"

\* the collection as it was when the current body was started
Before == SubSeq(store, 1, itemBase)

\* a referred enrollment went through: POST /api/enroll answered 201 for an event of
\* type enrollment, the referrer was accepted and the processor met no failure
ReferredEnrollment ==
    /\ op = "enroll" /\ pc = "done" /\ outcomes[1].status = "201"
    /\ eventData.actionType = "enrollment"
    /\ ~Falsy(cur.referrerId) /\ cur.referrerId # cur.userId
    /\ referralResult.returned /\ referralResult.error = ""

\* C13: after a successful enrollment of u with creditsAwarded = C and an eligible
\* referrer r # u, with no store failure, the user total of r has grown by exactly
\* floor(C * 0.20) and that of u by exactly C: the referrerBonus on u's event counts
\* for nothing in u's total.  Enrolling u1 with 100 and then u2 with 150 referred by
\* u1 gives the totals 130 and 150.
C13_EnrollmentTotals ==
    ReferredEnrollment =>
        LET u == cur.userId
            r == cur.referrerId
            C == eventData.creditsAwarded
        IN  /\ getUserCreditTotal(store, r).totalCredits
                 = getUserCreditTotal(Before, r).totalCredits + ((C * 20) \div 100)
            /\ getUserCreditTotal(store, u).totalCredits
                 = getUserCreditTotal(Before, u).totalCredits + C
            /\ ( /\ C = 150 /\ u = "u2" /\ r = "u1" /\ Len(Before) = 1
                 /\ Before[1].actionType = "enrollment" /\ Before[1].creditsAwarded = 100
                 => /\ getUserCreditTotal(store, "u1").totalCredits = 130
                    /\ getUserCreditTotal(store, "u2").totalCredits = 150 )

\* u1 was enrolled with 100, then u2 with 150 referred by u1
C13_Witness ==
    /\ ReferredEnrollment
    /\ eventData.creditsAwarded = 150 /\ cur.userId = "u2" /\ cur.referrerId = "u1"
    /\ Len(Before) = 1 /\ Before[1].actionType = "enrollment"
    /\ Before[1].userId = "u1" /\ Before[1].creditsAwarded = 100
    /\ getUserCreditTotal(store, "u1").totalCredits = 130

\* the sum of creditsAwarded over the stored events at the positions in I
RECURSIVE CreditsAt(_)
CreditsAt(I) ==
    IF I = {} THEN 0
    ELSE LET i == CHOOSE j \in I : TRUE
         IN  store[i].creditsAwarded + CreditsAt(I \ {i})

\* the sums of the counts and of the totals of a breakdown by action over the actions A
RECURSIVE CountsIn(_, _)
CountsIn(by, A) ==
    IF A = {} THEN 0
    ELSE LET a == CHOOSE b \in A : TRUE IN by[a].count + CountsIn(by, A \ {a})

RECURSIVE TotalsIn(_, _)
TotalsIn(by, A) ==
    IF A = {} THEN 0
    ELSE LET a == CHOOSE b \in A : TRUE IN by[a].totalCredits + TotalsIn(by, A \ {a})

\* a call of getUserCreditTotal has returned
UserTotalReturned ==
    read.kind = "getUserCreditTotal" /\ "thrown" \notin DOMAIN read.result

\* C14: for every user id and collection, getUserCreditTotal returns totalCredits =
\* the sum of creditsAwarded over exactly the events of that user, totalEvents = their
\* number, a creditsByAction whose counts and sums per action partition those totals,
\* lastActivity = the timestamp of the newest of them (null when there is none) and
\* recentEvents = the at most 10 newest of them, newest first.  A collection holding
\* one enrollment of 100 gives totalCredits 100 and totalEvents 1.
C14_UserTotal ==
    UserTotalReturned =>
        LET u == read.query
            res == read.result
            mine == {i \in 1..Len(store) : store[i].userId = u}
            OfAction(a) == {i \in mine : store[i].actionType = a}
            by == res.creditsByAction
            recent == res.recentEvents
        IN  /\ res.totalCredits = CreditsAt(mine)
            /\ res.totalEvents = Cardinality(mine)
            /\ DOMAIN by = {store[i].actionType : i \in mine}
            /\ \A a \in DOMAIN by : /\ by[a].count = Cardinality(OfAction(a))
                                    /\ by[a].totalCredits = CreditsAt(OfAction(a))
            /\ CountsIn(by, DOMAIN by) = res.totalEvents
            /\ TotalsIn(by, DOMAIN by) = res.totalCredits
            /\ res.lastActivity =
                 IF mine = {} THEN <<>>
                 ELSE <<CHOOSE t \in {store[i].timestamp : i \in mine} :
                            \A i \in mine : store[i].timestamp <= t>>
            /\ Len(recent) = Min(10, Cardinality(mine))
            /\ \A k \in 1..Len(recent) : \E i \in mine : recent[k] = store[i]
            /\ \A k \in 1..(Len(recent) - 1) : recent[k].timestamp > recent[k + 1].timestamp
            /\ \A i \in mine : (\A k \in 1..Len(recent) : recent[k] # store[i])
                                  => store[i].timestamp < recent[Len(recent)].timestamp
            /\ ( /\ Len(store) = 1 /\ store[1].userId = u
                 /\ store[1].actionType = "enrollment" /\ store[1].creditsAwarded = 100
                 => res.totalCredits = 100 /\ res.totalEvents = 1 )

\* the total of a user with more than ten events, of two action types, was read from
\* a collection that holds another user's event as well
C14_Witness ==
    /\ UserTotalReturned
    /\ read.result.totalEvents > 10
    /\ Len(read.result.recentEvents) = 10
    /\ Cardinality(DOMAIN read.result.creditsByAction) = 2
    /\ \E i \in 1..Len(store) : store[i].userId # read.query

CreditEventsReturned ==
    read.kind = "getCreditEvents" /\ "thrown" \notin DOMAIN read.result

\* the positions of the stored events that match the filters f
MatchingAt(f) ==
    {i \in 1..Len(store) :
        /\ Falsy(f.userId) \/ store[i].userId = f.userId
        /\ Falsy(f.actionType) \/ store[i].actionType = f.actionType
        /\ Falsy(f.referrerId) \/ store[i].referrerId = f.referrerId
        /\ f.startDate = <<>> \/ store[i].timestamp >= f.startDate[1]
        /\ f.endDate = <<>> \/ store[i].timestamp <= f.endDate[1]}

\* C16: for every filter set, limit and skip, getCreditEvents returns the matching
\* events newest first starting at position skip, never more than min(limit, 100) of
\* them (limit defaults to 50), totalCount = the number of matching events, and
\* hasMore = (skip + number returned) < totalCount.
C16_CreditEventsPage ==
    CreditEventsReturned =>
        LET f == read.query
            limit == IF f.limit = <<>> THEN 50 ELSE f.limit[1]
            skip == IF f.skip = <<>> THEN 0 ELSE f.skip[1]
            events == read.result.events
            page == read.result.pagination
        IN  /\ Len(events) <= Min(limit, 100)
            /\ \A k \in 1..Len(events) :
                 \E i \in MatchingAt(f) :
                    /\ events[k] = store[i]
                    /\ Cardinality({j \in MatchingAt(f) :
                                      store[j].timestamp > store[i].timestamp}) = skip + k - 1
            /\ page.totalCount = Cardinality(MatchingAt(f))
            /\ page.hasMore = ((skip + Len(events)) < page.totalCount)

\* C17: on the enrollment path a request that names a referrerId (other than its own
\* userId) with no event in the collection is rejected as an invalid referrer and
\* leaves the collection unchanged.
C17_UnknownReferrerRejected ==
    ( /\ op = "enroll" /\ pc \in {"bonus", "primary", "done"}
      /\ ~Falsy(cur.userId) /\ ~Falsy(cur.referrerId) /\ cur.referrerId # cur.userId
      /\ \A i \in 1..itemBase : store[i].userId # cur.referrerId )
    => /\ pc = "done"
       /\ outcomes[1].status = "400"
       /\ outcomes[1].error = "Invalid referrer ID"
       /\ outcomes[1].appended = 0
       /\ Len(store) = itemBase

\* an enrollment naming a referrer without events was answered, on a collection that
\* holds an event of another user
C17_Witness ==
    /\ op = "enroll" /\ pc = "done"
    /\ cur.referrerId = "u1" /\ cur.userId = "u2"
    /\ Len(store) >= 1
    /\ \A i \in 1..Len(store) : store[i].userId # "u1"
    /\ outcomes[1].error = "Invalid referrer ID"

\* C18: on the enrollment path a request whose referrerId equals its userId is
\* rejected with the self-referral validation error before any access to the
\* collection, whether or not that user has events: no primary event and no bonus
\* event is appended.
C18_SelfReferralRejected ==
    ( /\ op = "enroll" /\ pc # "start"
      /\ ~Falsy(cur.userId) /\ cur.referrerId = cur.userId )
    => /\ pc = "done"
       /\ outcomes[1].status = "400"
       /\ outcomes[1].error = "Users cannot refer themselves"
       /\ outcomes[1].appended = 0
       /\ Len(store) = itemBase

\* a self-referring enrollment of a user who has events was answered
C18_Witness ==
    /\ op = "enroll" /\ pc = "done"
    /\ ~Falsy(cur.userId) /\ cur.referrerId = cur.userId
    /\ HasHistory(cur.userId)
    /\ outcomes[1].status = "400"

\* C19: validateReferrer(referrerId) returns false for an empty or null id; otherwise
\* it returns true exactly when the collection holds at least one event, of any
\* action type (referral_bonus included), whose userId is referrerId; a failing query
\* yields false.
C19_ValidateReferrer ==
    read.kind = "validateReferrer" =>
        LET referrerId == read.query[1]
            queryOk == read.query[2]
        IN  read.result =
                ( /\ referrerId \notin {"", Null, Undefined}
                  /\ queryOk
                  /\ Cardinality({i \in 1..Len(store) : store[i].userId = referrerId}) >= 1 )

\* validateReferrer returned true for a user whose only events are referral bonuses
C19_Witness ==
    /\ read.kind = "validateReferrer"
    /\ read.result
    /\ \A i \in 1..Len(store) :
          store[i].userId = read.query[1] => store[i].actionType = "referral_bonus"

\* the save of the bonus event failed inside processReferralBonus
BonusSaveFailed ==
    referralResult.returned /\ referralResult.error = "referralEvent.save failed"

\* C20: when the append of the bonus event fails inside processReferralBonus the
\* failure does not propagate: the processor returns success = false with
\* bonusAwarded = 0, and recordCreditEvent goes on to save the primary event, with
\* referrerBonus = 0 and the referrerId it was given, and reports success (unless the
\* save of the primary event fails itself).
C20_BonusFailureContained ==
    BonusSaveFailed =>
        /\ ~referralResult.success
        /\ referralResult.bonusAwarded = 0
        /\ prbEnd = prbBase
        /\ op \in Recorders =>
             /\ pc \in {"primary", "done"}
             /\ pc = "done" =>
                  LET out == outcomes[Len(outcomes)]
                  IN  \/ /\ out.status \in {"201", "item_ok", "returned"}
                         /\ out.appended = 1
                         /\ store[out.eventId].referrerBonus = 0
                         /\ store[out.eventId].referrerId = eventData.referrerId
                      \/ out.cause \in {"creditEvent.save failed",
                                        "CreditEvent validation failed"}

\* an enrollment referred by u1 was recorded although the save of its bonus event
\* had failed
C20_Witness ==
    /\ BonusSaveFailed
    /\ op = "enroll" /\ pc = "done"
    /\ outcomes[1].status = "201"
    /\ store[outcomes[1].eventId].referrerId = "u1"
    /\ store[outcomes[1].eventId].referrerBonus = 0

\* C21: the ledger is append-only: whatever the operations do, every event persisted
\* earlier is still in the collection, at its place and with all its fields
\* unchanged, and the number of events never decreases.
C21_AppendOnly ==
    [][ /\ Len(store') >= Len(store)
        /\ \A i \in 1..Len(store) : store'[i] = store[i] ]_vars

\* a batch has added events to a collection that held some
C21_Witness ==
    /\ op = "batch" /\ pc = "done"
    /\ Len(outcomes) = 2
    /\ outcomes[1].appended + outcomes[2].appended >= 2
    /\ Len(store) > outcomes[1].appended + outcomes[2].appended

\* the processor has stored a bonus event in the current call
BonusStored == referralResult.returned /\ referralResult.referralEventId # 0

\* C22: the bonus append and the primary append of one recordCreditEvent call are
\* independent under store failures: the bonus event can be persisted while the
\* primary event is not, and the primary event while its bonus event is not, and in
\* neither case is an earlier write rolled back: a bonus event once stored stays
\* whatever becomes of the primary event, and a body that ends in an error keeps
\* what it appended.
C22_AppendsIndependent ==
    op \in Recorders =>
        /\ Len(store) >= itemBase
        /\ BonusStored =>
             /\ referralResult.referralEventId <= Len(store)
             /\ store[referralResult.referralEventId].actionType = "referral_bonus"
             /\ store[referralResult.referralEventId].creditsAwarded
                  = referralResult.bonusAwarded
        /\ (pc = "done" /\ BonusStored) =>
             LET out == outcomes[Len(outcomes)]
             IN  out.appended = IF out.eventId = 0 THEN 1 ELSE 2
        /\ (pc = "done" /\ BonusSaveFailed) =>
             LET out == outcomes[Len(outcomes)]
             IN  out.appended = IF out.eventId = 0 THEN 0 ELSE 1

\* the bonus event of the current call is persisted and its primary event is not,
\* on a collection where an earlier call persisted a primary event whose bonus
\* event is not there
C22_Witness ==
    /\ op \in Recorders /\ pc = "done"
    /\ BonusStored
    /\ outcomes[Len(outcomes)].eventId = 0
    /\ store[Len(store)].actionType = "referral_bonus"
    /\ \E j \in 1..itemBase :
          /\ store[j].actionType # "referral_bonus"
          /\ store[j].referrerId \notin {Null, store[j].userId}
          /\ store[j].referrerBonus = 0
          /\ calculateReferralBonus(store[j].actionType, store[j].creditsAwarded) > 0
          /\ (j = 1 \/ store[j - 1].actionType # "referral_bonus")

\* the sum of the event counts of a system breakdown by action over the actions A
RECURSIVE EventCountsIn(_, _)
EventCountsIn(by, A) ==
    IF A = {} THEN 0
    ELSE LET a == CHOOSE b \in A : TRUE IN by[a].eventCount + EventCountsIn(by, A \ {a})

\* a call of getSystemStats has returned
SystemStatsReturned ==
    read.kind = "getSystemStats" /\ "thrown" \notin DOMAIN read.result

\* C23: for every collection, read with no write in between, getSystemStats returns
\* totalCredits = the sum of creditsAwarded over all events, totalEvents = the number
\* of events, uniqueUsers = the number of distinct userId values, and a
\* creditsByAction whose totalCredits and eventCount per action are the sum and the
\* count of the events of that action type, so that they add up to totalCredits and
\* totalEvents; on an empty collection all totals are 0.
C23_SystemStats ==
    SystemStatsReturned =>
        LET res == read.result
            all == 1..Len(store)
            OfAction(a) == {i \in all : store[i].actionType = a}
            by == res.creditsByAction
        IN  /\ res.totalCredits = CreditsAt(all)
            /\ res.totalEvents = Len(store)
            /\ res.uniqueUsers = Cardinality({store[i].userId : i \in all})
            /\ DOMAIN by = {store[i].actionType : i \in all}
            /\ \A a \in DOMAIN by : /\ by[a].totalCredits = CreditsAt(OfAction(a))
                                    /\ by[a].eventCount = Cardinality(OfAction(a))
            /\ TotalsIn(by, DOMAIN by) = res.totalCredits
            /\ EventCountsIn(by, DOMAIN by) = res.totalEvents
            /\ ( store = <<>> => /\ res.totalCredits = 0 /\ res.totalEvents = 0
                                 /\ res.uniqueUsers = 0 /\ DOMAIN by = {} )

\* the statistics of a collection with events of two users and of two action types
\* were read
C23_Witness ==
    /\ SystemStatsReturned
    /\ read.result.uniqueUsers = 2
    /\ Cardinality(DOMAIN read.result.creditsByAction) = 2
    /\ read.result.totalEvents > read.result.uniqueUsers

\* values of process.env.NODE_ENV
NodeEnvs == {"development", "production", Undefined}

\* the error texts the client receives for an outcome: a route's 4xx / 5xx response
\* carries `error` and, in development, the message of the caught error as `details`;
\* an entry of the batch errors array carries error.message as `error`
Disclosed(o, out, nodeEnv) ==
    IF o = "batch" THEN {out.error}
    ELSE {out.error} \cup (IF nodeEnv = "development" THEN {out.cause} ELSE {})

\* messages of errors raised by the store
StoreFailures == {"referralEvent.save failed", "creditEvent.save failed", "insertMany failed"}

\* C24: when NODE_ENV is not development, no failure response of an endpoint carries
\* the internal message of a store or infrastructure failure, the per-item error
\* entries of the batch enrollment response included.
C24_NoLeakInProduction ==
    \A nodeEnv \in NodeEnvs \ {"development"} :
        \A i \in 1..Len(outcomes) :
            op \in {"enroll", "batch", "credits"} =>
                Disclosed(op, outcomes[i], nodeEnv) \cap StoreFailures = {}

\* C25: for any action type that is not a key of the bonus-rate table (referral_bonus
\* and arbitrary strings included) calculateReferralBonus uses the `other` rate: the
\* result is floor(baseCredits * 0.10).
C25_UnknownTypeUsesOtherRate ==
    ( /\ calc.done
      /\ calc.actionType \notin {"enrollment", "social_post", "tech_module",
                                 "spend_multiplier", "coffee_wall", "other"} )
    => calc.result = (calc.baseCredits * 10) \div 100

\* getUserCreditTotal has returned, for the referrer of the body being handled, what
\* the collection holds now
ReferrerTotalIsCurrent ==
    /\ UserTotalReturned
    /\ read.query = eventData.referrerId
    /\ read.result.totalEvents =
          Cardinality({i \in 1..Len(store) : store[i].userId = read.query})

\* C26: within one recordCreditEvent call that triggers a referral with a nonzero
\* bonus, the bonus event is appended strictly before the primary event: while the
\* call waits for the save of its primary event the bonus event is the newest event
\* of the collection and a reader sees it, the primary event not being there yet;
\* once both are stored the bonus event comes first.
C26_BonusBeforePrimary ==
    (op \in Recorders /\ BonusStored) =>
        /\ pc = "primary" =>
             /\ Len(store) = referralResult.referralEventId
             /\ store[Len(store)].actionType = "referral_bonus"
             /\ store[Len(store)].userId = eventData.referrerId
             /\ ReferrerTotalIsCurrent =>
                  read.result.recentEvents[1] = store[referralResult.referralEventId]
        /\ pc = "done" =>
             LET out == outcomes[Len(outcomes)]
             IN  out.eventId # 0 => referralResult.referralEventId < out.eventId

\* a reader has got the referrer's total, with the bonus event as its newest event,
\* while the call that stored the bonus waits for the save of its primary event
C26_Witness ==
    /\ op \in Recorders /\ pc = "primary" /\ BonusStored
    /\ ReferrerTotalIsCurrent
    /\ read.result.recentEvents[1].actionType = "referral_bonus"
    /\ read.result.recentEvents[1].metadata.triggeredBy = cur.userId
    /\ \A i \in (itemBase + 1)..Len(store) : store[i].userId # cur.userId

\* the number of events appended while the bodies of outs were handled
RECURSIVE AppendedIn(_)
AppendedIn(outs) ==
    IF outs = <<>> THEN 0 ELSE Head(outs).appended + AppendedIn(Tail(outs))

\* C27: batch enrollment handles its items one at a time, in array order and in
\* isolation: an item that fails (missing userId, ineligible referrer, or an error
\* thrown while recording) appends no primary event for itself and never keeps the
\* later items from being handled, and an item whose referrerId equals its userId is
\* recorded with referrerId = null and no bonus instead of being rejected.
C27_BatchIsolation ==
    op = "batch" =>
        /\ Len(outcomes) = IF pc = "done" THEN Len(items) ELSE idx - 1
        /\ \A i \in 1..Len(outcomes) :
             LET out == outcomes[i]
                 b == items[i]
             IN  /\ out.status \in {"item_ok", "item_error"}
                 /\ out.status = "item_error" => out.eventId = 0 /\ out.appended <= 1
                 /\ out.status = "item_ok" =>
                      /\ out.eventId # 0
                      /\ store[out.eventId].userId = b.userId
                      /\ store[out.eventId].metadata = RouteMetadata("batch")
                 /\ Falsy(b.userId) =>
                      /\ out.status = "item_error" /\ out.appended = 0
                      /\ out.error = "userId is required"
                 /\ out.error = "Invalid referrer ID" => out.appended = 0
                 /\ (~Falsy(b.userId) /\ b.referrerId = b.userId) =>
                      /\ out.error \notin {"Users cannot refer themselves",
                                           "Invalid referrer ID"}
                      /\ out.status = "item_ok" =>
                           /\ out.appended = 1
                           /\ store[out.eventId].referrerId = Null
                           /\ store[out.eventId].referrerBonus = 0
        /\ pc = "done" =>
             {k \in (Len(store) - AppendedIn(outcomes) + 1)..Len(store) :
                 store[k].actionType # "referral_bonus"}
               = {outcomes[i].eventId : i \in {j \in 1..Len(outcomes) :
                                                   outcomes[j].status = "item_ok"}}

\* in a batch of two the first item failed while it was being recorded, its bonus
\* event stored, and the second, a self-referral, was recorded
C27_Witness ==
    /\ op = "batch" /\ pc = "done" /\ Len(outcomes) = 2
    /\ outcomes[1].status = "item_error" /\ outcomes[1].appended = 1
    /\ outcomes[2].status = "item_ok"
    /\ items[2].referrerId = items[2].userId
    /\ store[outcomes[2].eventId].referrerId = Null

\* a step of a request of one of `paths` in which the processor stores a bonus event
\* for a user who has no event yet
BonusToNewcomer(paths) ==
    /\ op \in paths /\ pc = "bonus"
    /\ Len(store') = Len(store) + 1
    /\ \A j \in 1..Len(store) : store[j].userId # store'[Len(store')].userId

\* C28: on every write path (enroll, batch enroll, award credits) a referral_bonus
\* event is credited to a user that already had at least one event in the collection
\* at the moment the bonus event was appended.
C28_BonusOnlyWithHistory ==
    [][~BonusToNewcomer({"enroll", "batch", "credits"})]_vars

\* C28, amended: on the enroll and batch enroll paths a referral_bonus event is
\* credited to a user that already had at least one event in the collection at the
\* moment the bonus event was appended; the award credits path does not check the
\* referrer.
C28_EnrollBonusOnlyWithHistory ==
    [][~BonusToNewcomer({"enroll", "batch"})]_vars

\* a batch item has stored a bonus event for a referrer with earlier events
C28_Witness ==
    /\ op = "batch" /\ pc = "primary" /\ BonusStored
    /\ \E j \in 1..(referralResult.referralEventId - 1) :
          store[j].userId = store[referralResult.referralEventId].userId

----------------------------------------------------------------------------
\* The callers of recordCreditEvent alone: the three routes and a direct call

NextRecord ==
    \/ EnrollRequest \/ BatchRequest \/ CreditsRequest \/ RecordCall
    \/ EnrollStart \/ BatchItemStart \/ CreditsStart \/ RecordStart
    \/ ValidateReferrer \/ BonusSave \/ PrimarySave
    \/ Return

SpecRecord == Init /\ [][NextRecord]_vars

RECURSIVE SumReferrerBonus(_)
SumReferrerBonus(events) ==
    IF events = <<>> THEN 0 ELSE Head(events).referrerBonus + SumReferrerBonus(Tail(events))

IsBonusEvent(e) == e.actionType = "referral_bonus"
IsOtherEvent(e) == e.actionType # "referral_bonus"
EarnedBonus(e) == e.actionType # "referral_bonus" /\ e.referrerBonus > 0

\* C29: after any sequence of recordCreditEvent calls on an initially empty store, the
\* creditsAwarded of the referral_bonus events add up to the referrerBonus of the other
\* events, and there are as many referral_bonus events as other events with
\* referrerBonus > 0.
C29_BonusesMatchPrimaries ==
    pc = "idle" =>
        /\ SumCredits(SelectSeq(store, IsBonusEvent))
              = SumReferrerBonus(SelectSeq(store, IsOtherEvent))
        /\ Len(SelectSeq(store, IsBonusEvent)) = Len(SelectSeq(store, EarnedBonus))

====
